---- MODULE Spec2Model ----
(***************************************************************************)
(* Model of examples/download_sample_data.py: the progress Bar, the        *)
(* streamed download (_url_to_binary_write), archive extraction            *)
(* (_extract_downloaded_archive, _unzip_7z), dataset processing            *)
(* (_process_dataset, _handle_special_cases, _lidar_url_to_files) and the  *)
(* driver loop of main().                                                  *)
(*                                                                         *)
(* Python strings are sequences of one-character strings, so that          *)
(* endswith, replace, strip, basename, dirname and join are computed       *)
(* character by character as the library computes them.                    *)
(***************************************************************************)
EXTENDS Integers, Sequences, FiniteSets, TLC

(***************************************************************************)
(* String literals of the program.                                         *)
(***************************************************************************)
SUF_tar_gz == <<"t", "a", "r", ".", "g", "z">>   \* "tar.gz"
SUF_tar == <<"t", "a", "r">>   \* "tar"
SUF_tar_bz2 == <<"t", "a", "r", ".", "b", "z", "2">>   \* "tar.bz2"
SUF_zip == <<"z", "i", "p">>   \* "zip"
SUF_7z == <<"7", "z">>   \* "7z"
S_html == <<".", "h", "t", "m", "l">>   \* ".html"
S_gnd == <<"g", "n", "d">>   \* "gnd"
S_data == <<"d", "a", "t", "a">>   \* "data"
S_of == <<" ", "o", "f", " ">>   \* " of "
TAG_lidar == <<"l", "i", "d", "a", "r">>   \* "lidar"

\* How long to wait before recalculating the ETA
ETA_INTERVAL == 1
\* How many intervals (excluding the current one) enter the moving average
ETA_SMA_WINDOW == 9
\* chunk_size of resp.iter_content, and the divisor of total_length
CHUNK_SIZE == 1024

(***************************************************************************)
(* Inputs: directory names, URLs, file names, tags and titles that the     *)
(* manifests of the model use.                                             *)
(***************************************************************************)
HERE == <<"/", "h">>   \* "/h", the directory of the script
S_terrain == <<"t", "e", "r", "r", "a", "i", "n">>   \* "terrain"
URL_dem_zip == <<"h", "t", "t", "p", ":", "/", "/", "x", "/", "d", "e", "m", ".", "z", "i", "p">>   \* "http://x/dem.zip"
URL_index_html == <<"h", "t", "t", "p", ":", "/", "/", "x", "/", "i", "n", "d", "e", "x", ".", "h", "t", "m", "l">>   \* "http://x/index.html"
URL_a_tar_gz == <<"h", "t", "t", "p", ":", "/", "/", "x", "/", "a", ".", "t", "a", "r", ".", "g", "z">>   \* "http://x/a.tar.gz"
URL_a_tar == <<"h", "t", "t", "p", ":", "/", "/", "x", "/", "a", ".", "t", "a", "r">>   \* "http://x/a.tar"
URL_a_tar_bz2 == <<"h", "t", "t", "p", ":", "/", "/", "x", "/", "a", ".", "t", "a", "r", ".", "b", "z", "2">>   \* "http://x/a.tar.bz2"
URL_archive_dat == <<"h", "t", "t", "p", ":", "/", "/", "x", "/", "a", "r", "c", "h", "i", "v", "e", ".", "d", "a", "t">>   \* "http://x/archive.dat"
URL_c_7z == <<"h", "t", "t", "p", ":", "/", "/", "x", "/", "c", ".", "7", "z">>   \* "http://x/c.7z"
URL_gzip == <<"h", "t", "t", "p", ":", "/", "/", "x", "/", "g", "z", "i", "p">>   \* "http://x/gzip"
URL_index_a == <<"h", "t", "t", "p", ":", "/", "/", "x", "/", "i", "n", "d", "e", "x", "/", "a", ".", "7", "z">>   \* "http://x/index/a.7z"
URL_index_b == <<"h", "t", "t", "p", ":", "/", "/", "x", "/", "i", "n", "d", "e", "x", "/", "b", ".", "7", "z">>   \* "http://x/index/b.7z"
URL_x_a == <<"h", "t", "t", "p", ":", "/", "/", "x", "/", "a", ".", "7", "z">>   \* "http://x/a.7z"
URL_x_b == <<"h", "t", "t", "p", ":", "/", "/", "x", "/", "b", ".", "7", "z">>   \* "http://x/b.7z"
F_dem_tif == <<"d", "e", "m", ".", "t", "i", "f">>   \* "dem.tif"
F_a_7z == <<"a", ".", "7", "z">>   \* "a.7z"
F_b_7z == <<"b", ".", "7", "z">>   \* "b.7z"
F_a_gnd == <<"a", ".", "g", "n", "d">>   \* "a.gnd"
F_b_gnd == <<"b", ".", "g", "n", "d">>   \* "b.gnd"
F_c_gnd == <<"c", ".", "g", "n", "d">>   \* "c.gnd"
F_f_dat == <<"f", ".", "d", "a", "t">>   \* "f.dat"
F_a_txt == <<"a", ".", "t", "x", "t">>   \* "a.txt"
F_b_txt == <<"b", ".", "t", "x", "t">>   \* "b.txt"
F_out == <<"o", "u", "t">>   \* "out"
TAG_foo == <<"f", "o", "o">>   \* "foo"
T_DEM == <<"D", "E", "M">>   \* "DEM"
T_Lidar == <<"L", "i", "d", "a", "r">>   \* "Lidar"
TITLE_1_of_2 == <<"L", "i", "d", "a", "r", " ", "1", " ", "o", "f", " ", "2">>   \* "Lidar 1 of 2"
TITLE_2_of_2 == <<"L", "i", "d", "a", "r", " ", "2", " ", "o", "f", " ", "2">>   \* "Lidar 2 of 2"
DOT_tar_gz == <<".", "t", "a", "r", ".", "g", "z">>   \* ".tar.gz"
DOT_tar == <<".", "t", "a", "r">>   \* ".tar"
DOT_tar_bz2 == <<".", "t", "a", "r", ".", "b", "z", "2">>   \* ".tar.bz2"
DOT_zip == <<".", "z", "i", "p">>   \* ".zip"
DOT_7z == <<".", "7", "z">>   \* ".7z"

(***************************************************************************)
(* Bounds of the model.                                                    *)
(***************************************************************************)
\* largest content-length of a response, in whole chunks
MaxKB == 1
\* show calls made on a Bar in SpecBar
MaxShows == 11

(***************************************************************************)
(* Python string operations.                                               *)
(***************************************************************************)
\* str.endswith
EndsWith(s, suf) ==
    /\ Len(s) >= Len(suf)
    /\ SubSeq(s, Len(s) - Len(suf) + 1, Len(s)) = suf

\* str.startswith at position i (1-based)
MatchAt(s, i, pat) ==
    /\ i + Len(pat) - 1 <= Len(s)
    /\ SubSeq(s, i, i + Len(pat) - 1) = pat

\* str.replace(old, new): every non-overlapping occurrence, left to right
RECURSIVE ReplaceFrom(_, _, _, _)
ReplaceFrom(s, i, old, new) ==
    IF i > Len(s) THEN <<>>
    ELSE IF MatchAt(s, i, old)
         THEN new \o ReplaceFrom(s, i + Len(old), old, new)
         ELSE <<s[i]>> \o ReplaceFrom(s, i + 1, old, new)

Replace(s, old, new) == ReplaceFrom(s, 1, old, new)

\* str.strip(): leading and trailing blanks removed
RECURSIVE LStrip(_)
LStrip(s) == IF s # <<>> /\ Head(s) = " " THEN LStrip(Tail(s)) ELSE s

RECURSIVE RStrip(_)
RStrip(s) ==
    IF s # <<>> /\ s[Len(s)] = " " THEN RStrip(SubSeq(s, 1, Len(s) - 1)) ELSE s

Strip(s) == RStrip(LStrip(s))

\* index of the last "/" of s, 0 when there is none
LastSlash(s) ==
    LET idx == {k \in 1..Len(s) : s[k] = "/"}
    IN  IF idx = {} THEN 0 ELSE CHOOSE k \in idx : \A j \in idx : j <= k

\* posixpath.split(p)[1] and os.path.basename(p)
Basename(p) == SubSeq(p, LastSlash(p) + 1, Len(p))

\* os.path.dirname(p): the head of posixpath.split, trailing slashes removed
\* unless the head is the root
RECURSIVE RStripSlashes(_)
RStripSlashes(s) ==
    IF s # <<>> /\ s[Len(s)] = "/" THEN RStripSlashes(SubSeq(s, 1, Len(s) - 1)) ELSE s

Dirname(p) ==
    LET head == SubSeq(p, 1, LastSlash(p))
    IN  IF \A k \in 1..Len(head) : head[k] = "/" THEN head ELSE RStripSlashes(head)

\* posixpath.join(a, b)
Join(a, b) ==
    IF b # <<>> /\ Head(b) = "/" THEN b
    ELSE IF a = <<>> \/ a[Len(a)] = "/" THEN a \o b
    ELSE a \o <<"/">> \o b

\* str(n) for n >= 0
Digit(d) == <<"0", "1", "2", "3", "4", "5", "6", "7", "8", "9">>[d + 1]

RECURSIVE IntToStr(_)
IntToStr(n) == IF n < 10 THEN <<Digit(n)>> ELSE IntToStr(n \div 10) \o <<Digit(n % 10)>>

\* the last n elements of s: s[-n:]
LastN(s, n) == IF Len(s) <= n THEN s ELSE SubSeq(s, Len(s) - n + 1, Len(s))

(***************************************************************************)
(* State.                                                                  *)
(***************************************************************************)
VARIABLES
    manifest,   \* info: the ordered topic -> downloads mapping that main() loaded
    ti,         \* main(): position of the topic loop (1-based)
    di,         \* main(): position of the downloads loop inside the topic (1-based)
    pc,         \* where the program is
    cwd,        \* the process's current working directory
    old_dir,    \* DirectoryContext.old_dir of the dataset being processed
    dirs,       \* the directories that exist (absolute paths)
    files,      \* the regular files that exist (absolute paths)
    err,        \* the exception that ended the run, "none" while there is none
    job,        \* url, output_path, title of the transfer in progress, and its caller
    units,      \* _handle_special_cases: srcs_targets
    idx,        \* _handle_special_cases: enumerate index of the unit loop (0-based)
    resp,       \* the response of requests.get: status and content-length header
    nread,      \* chunks that resp.iter_content has yielded so far
    bar,        \* the Bar of the bar() generator, NoBar when there is none
    now,        \* time.time()
    out,        \* the last line printed: Skipping <title> or Downloading <title>
    dl,         \* record of the current or last _url_to_binary_write call
    ex,         \* record of the last _extract_downloaded_archive call, cleared
                \* when the next transfer starts
    dlCount,    \* number of requests.get calls made so far in this run
    exCount,    \* number of _extract_downloaded_archive calls made so far in this run
    shows,      \* the progress arguments of the show calls on bar, in order
    doneCalls,  \* number of done calls on bar
    trace,      \* the (topic, dataset) positions _process_dataset was called for
                \* in this run, in call order
    run,        \* which run of main() this is: 1, or 2 for an immediate re-run
    prev        \* the files on disk when the previous run ended ({} in run 1)

vars == <<manifest, ti, di, pc, cwd, old_dir, dirs, files, err, job, units, idx,
          resp, nread, bar, now, out, dl, ex, dlCount, exCount, shows, doneCalls,
          trace, run, prev>>

NoJob == [url |-> <<>>, output_path |-> <<>>, title |-> <<>>, ret |-> "none"]
NoResp == [status |-> 0, has_length |-> FALSE, content_length |-> 0]
NoBar == [expected_size |-> -1, start |-> 0, ittimes |-> <<>>, etadelta |-> 0,
          last_progress |-> 0, elapsed |-> -1]
NoOut == [verb |-> "none", title |-> <<>>]
NoDl == [opened |-> FALSE, path |-> <<>>, occurred |-> "none", exit |-> "none"]
NoEx == [path |-> <<>>, extractor |-> "none", exit |-> "none", err |-> "none",
         members |-> <<>>]

(***************************************************************************)
(* Bar (lines 63-134).  expected_size is kept in units of 1/1024, because  *)
(* _url_to_binary_write passes total_length/1024 + 1 under true division   *)
(* (from __future__ import division): a Bar whose expected_size is e holds *)
(* e * 1024 here.  A rate sample -(start - now)/(progress+1) is kept as    *)
(* the pair <<now - start, progress + 1>>.  eta and etadisp are computed   *)
(* from ittimes for display only and are not kept, nor is what show and    *)
(* done write to STREAM.                                                   *)
(***************************************************************************)
\* Bar.show(progress) at time t
ShowNoTrim(b, progress, t) ==
    LET recompute == (t - b.etadelta) > ETA_INTERVAL
    IN  [b EXCEPT !.last_progress = progress,
                  !.etadelta = IF recompute THEN t ELSE @,
                  !.ittimes = IF recompute
                              THEN Append(@, <<t - b.start, progress + 1>>)
                              ELSE @]

Show(b, progress, t) ==
    LET recompute == (t - b.etadelta) > ETA_INTERVAL
    IN  [b EXCEPT !.last_progress = progress,
                  !.etadelta = IF recompute THEN t ELSE @,
                  !.ittimes = IF recompute
                              THEN Append(LastN(@, ETA_SMA_WINDOW),
                                          <<t - b.start, progress + 1>>)
                              ELSE @]

\* Bar.__init__(expected_size=e) at time t
BarNew(e, t) ==
    LET b0 == [expected_size |-> e, start |-> t, ittimes |-> <<>>, etadelta |-> t,
               last_progress |-> 0, elapsed |-> -1]
    IN  IF e # 0 THEN Show(b0, 0, t) ELSE b0

\* the show calls that Bar.__init__ makes
InitShows(e) == IF e # 0 THEN <<0>> ELSE <<>>

\* Bar.done() at time t
Done(b, t) == [b EXCEPT !.elapsed = t - b.start]

(***************************************************************************)
(* _url_to_binary_write (lines 178-195) and bar() (lines 137-148).         *)
(***************************************************************************)
\* expected_size=(total_length/1024) + 1, in units of 1/1024
ExpectedSizeFloor(total_length) == (total_length \div CHUNK_SIZE) * CHUNK_SIZE

ExpectedSize(total_length) == total_length + CHUNK_SIZE

\* the number of chunks resp.iter_content(chunk_size=1024) yields for a body of
\* total_length bytes
NChunks(total_length) == (total_length + CHUNK_SIZE - 1) \div CHUNK_SIZE

\* if path.exists(output_path): os.remove(output_path)
CleanupKeep(fs, p) == fs

Cleanup(fs, p) == fs \ {p}

(***************************************************************************)
(* File system.                                                            *)
(***************************************************************************)
\* the absolute path that a path names in working directory wd
Abs(p, wd) == Join(wd, p)

\* os.path.exists(p) in working directory wd
Exists(p, wd, fs, ds) == p # <<>> /\ Abs(p, wd) \in (fs \cup ds)

(***************************************************************************)
(* _unzip_7z (lines 198-216) and _extract_downloaded_archive (219-236).    *)
(* An extraction result is [files, dirs, err]; err is "none" when the      *)
(* call returns.  _extract_downloaded_archive adds ran, the extractor it   *)
(* ran ("none" when no branch matched).                                    *)
(***************************************************************************)
\* the loop of _unzip_7z over zip(arc.filenames, arc.files), from member k on
RECURSIVE Unzip7zLoop(_, _, _, _, _, _)
Unzip7zLoop(fname, fnames, k, wd, fs, ds) ==
    IF k > Len(fnames) THEN [files |-> fs, dirs |-> ds, err |-> "none"]
    ELSE LET data_dir == Dirname(fname)
             gnd == Join(data_dir, Basename(fnames[k]))
             d == Dirname(gnd)
         IN  IF ~Exists(d, wd, fs, ds) /\ (d = <<>> \/ Dirname(Abs(d, wd)) \notin ds)
             THEN \* os.mkdir(d) raises: '' or a path whose parent is missing
                  [files |-> fs, dirs |-> ds, err |-> "OSError"]
             ELSE Unzip7zLoop(fname, fnames, k + 1, wd,
                              fs \cup {Abs(gnd, wd)}, ds \cup {Abs(d, wd)})

\* _unzip_7z(fname); corrupt: Archive7z cannot read the file
Unzip7z(fname, corrupt, fnames, wd, fs, ds) ==
    IF corrupt THEN [files |-> fs, dirs |-> ds, err |-> "FormatError"]
    ELSE Unzip7zLoop(fname, fnames, 1, wd, fs, ds)

\* tarfile.open(...).extractall() and ZipFile(...).extractall(): the members
\* are written under the working directory
ExtractAll(corrupt, kind, members, wd, fs, ds) ==
    IF corrupt THEN [files |-> fs, dirs |-> ds, err |-> kind]
    ELSE [files |-> fs \cup {Abs(members[k], wd) : k \in 1..Len(members)},
          dirs |-> ds, err |-> "none"]

\* the branch of the if/elif chain that output_path takes
ExtractorNoBz2(output_path) ==
    IF EndsWith(output_path, SUF_tar_gz) THEN "r:gz"
    ELSE IF EndsWith(output_path, SUF_tar) THEN "r:"
    ELSE IF EndsWith(output_path, SUF_zip) THEN "zip"
    ELSE IF EndsWith(output_path, SUF_7z) THEN "7z"
    ELSE "none"

Extractor(output_path) ==
    IF EndsWith(output_path, SUF_tar_gz) THEN "r:gz"
    ELSE IF EndsWith(output_path, SUF_tar) THEN "r:"
    ELSE IF EndsWith(output_path, SUF_tar_bz2) THEN "r:bz2"
    ELSE IF EndsWith(output_path, SUF_zip) THEN "zip"
    ELSE IF EndsWith(output_path, SUF_7z) THEN "7z"
    ELSE "none"

\* os.remove(output_path) after the extraction result r
RemoveArchiveSkip(r, output_path, wd) == r

RemoveArchive(r, output_path, wd) ==
    IF r.err # "none" THEN r
    ELSE IF Abs(output_path, wd) \in r.files
         THEN [r EXCEPT !.files = @ \ {Abs(output_path, wd)}]
         ELSE [r EXCEPT !.err = "OSError"]

\* _extract_downloaded_archive(output_path) in working directory wd
ExtractDownloadedArchive(output_path, corrupt, members, wd, fs, ds) ==
    LET e == Extractor(output_path)
        r == IF e = "r:gz" \/ e = "r:" \/ e = "r:bz2"
               THEN ExtractAll(corrupt, "ReadError", members, wd, fs, ds)
             ELSE IF e = "zip"
               THEN ExtractAll(corrupt, "BadZipfile", members, wd, fs, ds)
             ELSE IF e = "7z"
               THEN Unzip7z(output_path, corrupt, members, wd, fs, ds)
             ELSE [files |-> fs, dirs |-> ds, err |-> "none"]
        q == RemoveArchive(r, output_path, wd)
    IN  [files |-> q.files, dirs |-> q.dirs, err |-> q.err, ran |-> e]

(***************************************************************************)
(* _process_dataset (lines 239-270), _lidar_url_to_files (273-283) and     *)
(* _handle_special_cases (286-309).                                        *)
(***************************************************************************)
\* the loop over dataset.get('files', []) that sets requires_download
RequiresDownloadAlways(dataset, wd, fs, ds) == TRUE

RequiresDownload(dataset, wd, fs, ds) ==
    \E k \in 1..Len(dataset.files) : ~Exists(dataset.files[k], wd, fs, ds)

\* _lidar_url_to_files(here, url, files): urls, compressed, decompressed
LidarUrlToFilesSibling(here, url, fls) ==
    [urls |-> [k \in 1..Len(fls) |->
                  Join(Dirname(url), Strip(fls[k]))],
     compressed |-> [k \in 1..Len(fls) |->
                  Join(Join(here, S_data), Basename(fls[k]))],
     decompressed |-> [k \in 1..Len(fls) |-> Replace(fls[k], SUF_7z, S_gnd)]]

LidarUrlToFiles(here, url, fls) ==
    [urls |-> [k \in 1..Len(fls) |->
                  Replace(url, S_html, <<"/">> \o Strip(fls[k]))],
     compressed |-> [k \in 1..Len(fls) |->
                  Join(Join(here, S_data), Basename(fls[k]))],
     decompressed |-> [k \in 1..Len(fls) |-> Replace(fls[k], SUF_7z, S_gnd)]]

\* the branch _handle_special_cases takes on a (non-empty) tag: the lidar
\* expansion, or raise NotImplementedError
SpecialCaseGuess(tag) == "lidar"

SpecialCase(tag) == IF tag = TAG_lidar THEN "lidar" ELSE "NotImplementedError"

\* if os.path.exists(decompressed), for unit k (1-based) of srcs_targets
UnitSatisfiedFirst(us, k, wd, fs, ds) == Exists(us[1].decompressed, wd, fs, ds)

UnitSatisfied(us, k, wd, fs, ds) == Exists(us[k].decompressed, wd, fs, ds)

\* zip(urls, compressed, decompressed)
SrcsTargets(r) ==
    [k \in 1..Len(r.urls) |->
        [url |-> r.urls[k], output_path |-> r.compressed[k],
         decompressed |-> r.decompressed[k]]]

\* title_fmt.format(idx + 1, len(urls)) with title_fmt = title + ' {} of {}'
RunningTitle(title, i, n) ==
    title \o <<" ">> \o IntToStr(i + 1) \o S_of \o IntToStr(n)

(***************************************************************************)
(* Inputs of a run: the manifest, the files already on disk, the           *)
(* responses of the server and the contents of the archives it serves.     *)
(***************************************************************************)
DS_dem == [title |-> T_DEM, url |-> URL_dem_zip, files |-> <<F_dem_tif>>, tag |-> <<>>]
DS_lidar == [title |-> T_Lidar, url |-> URL_index_html, files |-> <<F_a_7z, F_b_7z>>,
             tag |-> TAG_lidar]
DS_foo == [title |-> T_DEM, url |-> URL_dem_zip, files |-> <<F_f_dat>>, tag |-> TAG_foo]
DS_foo_nofiles == [title |-> T_DEM, url |-> URL_dem_zip, files |-> <<>>, tag |-> TAG_foo]
DS_nofiles == [title |-> T_DEM, url |-> URL_archive_dat, files |-> <<>>, tag |-> <<>>]
DS_dat == [title |-> T_DEM, url |-> URL_archive_dat, files |-> <<F_f_dat>>, tag |-> <<>>]
DS_tar_gz == [title |-> T_DEM, url |-> URL_a_tar_gz, files |-> <<F_out>>, tag |-> <<>>]
DS_tar == [title |-> T_DEM, url |-> URL_a_tar, files |-> <<F_f_dat>>, tag |-> <<>>]
DS_tar_bz2 == [title |-> T_DEM, url |-> URL_a_tar_bz2, files |-> <<F_out>>, tag |-> <<>>]
DS_gzip == [title |-> T_DEM, url |-> URL_gzip, files |-> <<F_f_dat>>, tag |-> <<>>]
DS_c7z == [title |-> T_DEM, url |-> URL_c_7z, files |-> <<F_c_gnd>>, tag |-> <<>>]

Topic(name, downloads) == [topic |-> name, downloads |-> downloads]

Manifests ==
    { <<Topic(S_terrain, <<DS_dem>>)>>,
      <<Topic(S_data, <<DS_lidar>>)>>,
      <<Topic(S_terrain, <<DS_lidar, DS_dem>>)>>,
      <<Topic(S_data, <<DS_foo, DS_dem>>)>>,
      <<Topic(S_terrain, <<DS_dat, DS_nofiles>>), Topic(S_data, <<DS_dem>>)>>,
      <<Topic(S_data, <<DS_tar_gz, DS_tar>>)>>,
      <<Topic(S_data, <<DS_tar_bz2, DS_gzip>>)>>,
      <<Topic(S_terrain, <<DS_c7z>>), Topic(S_data, <<DS_foo_nofiles, DS_c7z>>)>> }

\* the directory the process is started in
START == <<"/", "w">>

TopicDirs == {Join(HERE, S_data), Join(HERE, S_terrain)}

\* the paths that may exist before the run: the declared files of each dataset
\* and the decompressed names of a lidar dataset, in the dataset's topic directory
InitCandidates(m) ==
    UNION { UNION { {Join(Join(HERE, m[t].topic), m[t].downloads[d].files[k])
                        : k \in 1..Len(m[t].downloads[d].files)}
                    \cup
                    {Join(Join(HERE, m[t].topic),
                          Replace(m[t].downloads[d].files[k], SUF_7z, S_gnd))
                        : k \in 1..Len(m[t].downloads[d].files)}
                  : d \in 1..Len(m[t].downloads) }
          : t \in 1..Len(m) }

\* the content-length values of the responses
ContentLengths == {k * CHUNK_SIZE + r : k \in 0..MaxKB, r \in {0, 1}}

\* what requests.get may return: any status (the program reads none), with or
\* without a content-length header
Responses ==
    {[status |-> s, has_length |-> TRUE, content_length |-> n]
        : s \in {200, 404}, n \in ContentLengths}
    \cup {[status |-> 200, has_length |-> FALSE, content_length |-> 0]}

\* the member names (arc.filenames, or the names extractall writes) of the
\* archive served at a URL
ArchiveContents(url) ==
    IF url = URL_dem_zip THEN {<<F_dem_tif>>}
    ELSE IF url = URL_index_a THEN {<<F_a_gnd>>, <<F_a_txt>>}
    ELSE IF url = URL_index_b THEN {<<F_b_gnd>>, <<F_b_txt>>}
    ELSE IF url = URL_c_7z THEN {<<F_c_gnd>>, <<>>}
    ELSE IF url \in {URL_a_tar, URL_gzip} THEN {<<F_f_dat>>}
    ELSE {<<F_out>>}

\* seconds that may pass between two readings of the clock
TimeSteps == {0, 1, 2}

Init ==
    /\ manifest \in Manifests
    /\ ti = 1
    /\ di = 1
    /\ pc = "main"
    /\ cwd = START
    /\ old_dir = START
    /\ dirs \in SUBSET TopicDirs
    /\ files \in SUBSET {p \in InitCandidates(manifest) : Dirname(p) \in dirs}
    /\ err = "none"
    /\ job = NoJob
    /\ units = <<>>
    /\ idx = 0
    /\ resp = NoResp
    /\ nread = 0
    /\ bar = NoBar
    /\ now = 0
    /\ out = NoOut
    /\ dl = NoDl
    /\ ex = NoEx
    /\ dlCount = 0
    /\ exCount = 0
    /\ shows = <<>>
    /\ doneCalls = 0
    /\ trace = <<>>
    /\ run = 1
    /\ prev = {}

(***************************************************************************)
(* main (lines 312-321).                                                   *)
(***************************************************************************)
dataset == manifest[ti].downloads[di]
output_dir == Join(HERE, manifest[ti].topic)
InDataset == pc = "main" /\ ti <= Len(manifest) /\ di <= Len(manifest[ti].downloads)

fsVars == <<dirs, files>>
loopVars == <<manifest, ti, run, prev>>
unitVars == <<units, idx>>
dlVars == <<resp, nread, bar, now, dl, shows, doneCalls>>

\* for topic, downloads in info.items(): the inner loop is exhausted
MainNextTopic ==
    /\ UNCHANGED trace
    /\ pc = "main" /\ ti <= Len(manifest) /\ di > Len(manifest[ti].downloads)
    /\ ti' = ti + 1
    /\ di' = 1
    /\ UNCHANGED <<manifest, run, prev, pc, cwd, old_dir, err, job, out, ex, dlCount,
                   exCount>>
    /\ UNCHANGED <<fsVars, unitVars, dlVars>>

\* the outer loop is exhausted: main returns
MainReturn ==
    /\ UNCHANGED trace
    /\ pc = "main" /\ ti > Len(manifest)
    /\ pc' = "done"
    /\ UNCHANGED <<manifest, run, prev, ti, di, cwd, old_dir, err, job, out, ex,
                   dlCount, exCount>>
    /\ UNCHANGED <<fsVars, unitVars, dlVars>>

\* the script is run again, right after a run that ended without error, on the
\* same manifest and on the files the first run left
Rerun ==
    /\ pc = "done"
    /\ run = 1
    /\ run' = 2
    /\ prev' = files
    /\ pc' = "main"
    /\ ti' = 1
    /\ di' = 1
    /\ trace' = <<>>
    /\ dlCount' = 0
    /\ exCount' = 0
    /\ out' = NoOut
    /\ ex' = NoEx
    /\ UNCHANGED <<manifest, cwd, old_dir, err, job>>
    /\ UNCHANGED <<fsVars, unitVars, dlVars>>

\* an exception leaves _process_dataset through DirectoryContext.__exit__ and
\* ends main
RaiseNoRestore(kind) ==
    /\ err' = kind
    /\ pc' = "halted"
    /\ cwd' = cwd

RaiseAndContinue(kind) ==
    /\ err' = kind
    /\ pc' = "main"
    /\ cwd' = old_dir

Raise(kind) ==
    /\ err' = kind
    /\ pc' = "halted"
    /\ cwd' = old_dir

\* _process_dataset returns through DirectoryContext.__exit__
ReturnFromDataset ==
    /\ cwd' = old_dir
    /\ di' = di + 1
    /\ pc' = "main"

(***************************************************************************)
(* _process_dataset: makedirs, the skip check, and the branch on the tag.  *)
(***************************************************************************)
\* if not requires_download: print Skipping; return
ProcessSkip ==
    /\ trace' = Append(trace, <<ti, di>>)
    /\ InDataset
    /\ ~RequiresDownload(dataset, output_dir, files, dirs \cup {output_dir})
    /\ dirs' = dirs \cup {output_dir}
    /\ old_dir' = cwd
    /\ cwd' = cwd
    /\ out' = [verb |-> "Skipping", title |-> dataset.title]
    /\ di' = di + 1
    /\ UNCHANGED <<loopVars, pc, files, err, job, ex, dlCount, exCount>>
    /\ UNCHANGED <<unitVars, dlVars>>

\* if not tag: the single archive named by the last segment of the url
ProcessUntagged ==
    /\ trace' = Append(trace, <<ti, di>>)
    /\ InDataset
    /\ RequiresDownload(dataset, output_dir, files, dirs \cup {output_dir})
    /\ dataset.tag = <<>>
    /\ dirs' = dirs \cup {output_dir}
    /\ old_dir' = cwd
    /\ cwd' = output_dir
    /\ job' = [url |-> dataset.url, output_path |-> Basename(dataset.url),
               title |-> dataset.title, ret |-> "dataset"]
    /\ pc' = "get"
    /\ UNCHANGED <<loopVars, di, files, err, out, ex, dlCount, exCount>>
    /\ UNCHANGED <<unitVars, dlVars>>

\* _handle_special_cases with tag == 'lidar': the expansion into srcs_targets
ProcessLidar ==
    /\ trace' = Append(trace, <<ti, di>>)
    /\ InDataset
    /\ RequiresDownload(dataset, output_dir, files, dirs \cup {output_dir})
    /\ dataset.tag # <<>>
    /\ SpecialCase(dataset.tag) = "lidar"
    /\ dirs' = dirs \cup {output_dir}
    /\ old_dir' = cwd
    /\ cwd' = output_dir
    /\ units' = SrcsTargets(LidarUrlToFiles(HERE, dataset.url, dataset.files))
    /\ idx' = 0
    /\ pc' = "unit"
    /\ UNCHANGED <<loopVars, di, files, err, job, out, ex, dlCount, exCount>>
    /\ UNCHANGED dlVars

\* _handle_special_cases with any other tag: raise NotImplementedError
ProcessUnknownTag ==
    /\ trace' = Append(trace, <<ti, di>>)
    /\ InDataset
    /\ RequiresDownload(dataset, output_dir, files, dirs \cup {output_dir})
    /\ dataset.tag # <<>>
    /\ SpecialCase(dataset.tag) = "NotImplementedError"
    /\ dirs' = dirs \cup {output_dir}
    /\ old_dir' = cwd
    /\ cwd' = cwd
    /\ err' = "NotImplementedError"
    /\ pc' = "halted"
    /\ UNCHANGED <<loopVars, di, files, job, out, ex, dlCount, exCount>>
    /\ UNCHANGED <<unitVars, dlVars>>

(***************************************************************************)
(* _handle_special_cases: the loop over srcs_targets (lines 303-309).      *)
(***************************************************************************)
unit == units[idx + 1]

\* if os.path.exists(decompressed): print Skipping; continue
UnitSkip ==
    /\ UNCHANGED trace
    /\ pc = "unit" /\ idx < Len(units)
    /\ UnitSatisfied(units, idx + 1, cwd, files, dirs)
    /\ out' = [verb |-> "Skipping",
               title |-> RunningTitle(dataset.title, idx, Len(units))]
    /\ idx' = idx + 1
    /\ UNCHANGED <<loopVars, di, pc, cwd, old_dir, err, job, units, ex, dlCount, exCount>>
    /\ UNCHANGED <<fsVars, dlVars>>

\* the unit is missing: _url_to_binary_write(url, output_path, running_title)
UnitDownload ==
    /\ UNCHANGED trace
    /\ pc = "unit" /\ idx < Len(units)
    /\ ~UnitSatisfied(units, idx + 1, cwd, files, dirs)
    /\ job' = [url |-> unit.url, output_path |-> unit.output_path,
               title |-> RunningTitle(dataset.title, idx, Len(units)),
               ret |-> "unit"]
    /\ pc' = "get"
    /\ UNCHANGED <<loopVars, di, cwd, old_dir, err, out, ex, dlCount, exCount>>
    /\ UNCHANGED <<fsVars, unitVars, dlVars>>

\* the loop is exhausted: _handle_special_cases and _process_dataset return
UnitsEnd ==
    /\ UNCHANGED trace
    /\ pc = "unit" /\ idx = Len(units)
    /\ ReturnFromDataset
    /\ units' = <<>>
    /\ idx' = 0
    /\ UNCHANGED <<loopVars, old_dir, err, job, out, ex, dlCount, exCount>>
    /\ UNCHANGED <<fsVars, dlVars>>

(***************************************************************************)
(* _url_to_binary_write: requests.get, open, the content-length header.    *)
(***************************************************************************)
target == Abs(job.output_path, cwd)

Downloading == [verb |-> "Downloading", title |-> job.title]

\* requests.get raises (line 183, outside the try block)
GetRaises ==
    /\ UNCHANGED trace
    /\ pc = "get"
    /\ out' = Downloading
    /\ dlCount' = dlCount + 1
    /\ dl' = [opened |-> FALSE, path |-> target, occurred |-> "ConnectionError",
              exit |-> "raised"]
    /\ Raise("ConnectionError")
    /\ ex' = NoEx
    /\ UNCHANGED <<loopVars, di, old_dir, job, exCount, resp, nread, bar, now,
                   shows, doneCalls>>
    /\ UNCHANGED <<fsVars, unitVars>>

\* open(output_path, 'wb') raises: the directory of output_path is missing
OpenFails ==
    /\ UNCHANGED trace
    /\ pc = "get"
    /\ Dirname(target) \notin dirs
    /\ \E r \in Responses : resp' = r
    /\ out' = Downloading
    /\ dlCount' = dlCount + 1
    /\ dl' = [opened |-> FALSE, path |-> target, occurred |-> "IOError",
              exit |-> "raised"]
    /\ files' = Cleanup(files, target)
    /\ Raise("IOError")
    /\ ex' = NoEx
    /\ UNCHANGED <<loopVars, di, old_dir, job, exCount, nread, bar, now,
                   shows, doneCalls, dirs>>
    /\ UNCHANGED unitVars

\* int(resp.headers.get('content-length')) raises: the header is missing
MissingLength ==
    /\ UNCHANGED trace
    /\ pc = "get"
    /\ Dirname(target) \in dirs
    /\ \E r \in Responses : ~r.has_length /\ resp' = r
    /\ out' = Downloading
    /\ dlCount' = dlCount + 1
    /\ dl' = [opened |-> TRUE, path |-> target, occurred |-> "TypeError",
              exit |-> "raised"]
    /\ files' = Cleanup(files \cup {target}, target)
    /\ Raise("TypeError")
    /\ ex' = NoEx
    /\ UNCHANGED <<loopVars, di, old_dir, job, exCount, nread, bar, now,
                   shows, doneCalls, dirs>>
    /\ UNCHANGED unitVars

\* the file is opened and the bar() generator is created (not yet started)
DownloadStart ==
    /\ UNCHANGED trace
    /\ pc = "get"
    /\ Dirname(target) \in dirs
    /\ \E r \in Responses : r.has_length /\ resp' = r
    /\ out' = Downloading
    /\ dlCount' = dlCount + 1
    /\ dl' = [opened |-> TRUE, path |-> target, occurred |-> "none",
              exit |-> "running"]
    /\ files' = files \cup {target}
    /\ nread' = 0
    /\ bar' = NoBar
    /\ shows' = <<>>
    /\ doneCalls' = 0
    /\ pc' = "next"
    /\ ex' = NoEx
    /\ UNCHANGED <<loopVars, di, cwd, old_dir, err, job, exCount, now, dirs>>
    /\ UNCHANGED unitVars

(***************************************************************************)
(* The for loop over bar(resp.iter_content(...)): each resumption of the   *)
(* generator first does what precedes the next item (Bar.__init__ on the   *)
(* first resumption, bar.show(i + 1) on the later ones), then takes the    *)
(* next chunk from iter_content.                                           *)
(***************************************************************************)
\* the Bar after the generator's step at time t
Resumed(t) ==
    IF bar = NoBar THEN BarNew(ExpectedSize(resp.content_length), t)
    ELSE Show(bar, nread, t)

ResumedShows ==
    IF bar = NoBar THEN InitShows(ExpectedSize(resp.content_length))
    ELSE Append(shows, nread)

\* iter_content yields a chunk: the loop body runs next
NextChunk ==
    /\ UNCHANGED trace
    /\ pc = "next"
    /\ nread < NChunks(resp.content_length)
    /\ \E dt \in TimeSteps : now' = now + dt
    /\ bar' = Resumed(now')
    /\ shows' = ResumedShows
    /\ nread' = nread + 1
    /\ pc' = "body"
    /\ UNCHANGED <<loopVars, di, cwd, old_dir, err, job, out, ex, dl, dlCount,
                   exCount, doneCalls, resp>>
    /\ UNCHANGED <<fsVars, unitVars>>

\* iter_content is exhausted: Bar.__exit__ calls done, the file is closed and
\* _url_to_binary_write returns
NextExhausted ==
    /\ UNCHANGED trace
    /\ pc = "next"
    /\ nread = NChunks(resp.content_length)
    /\ \E dt \in TimeSteps : now' = now + dt
    /\ bar' = Done(Resumed(now'), now')
    /\ shows' = ResumedShows
    /\ doneCalls' = doneCalls + 1
    /\ dl' = [dl EXCEPT !.exit = "returned"]
    /\ pc' = "extract"
    /\ UNCHANGED <<loopVars, di, cwd, old_dir, err, job, out, ex, dlCount,
                   exCount, nread, resp>>
    /\ UNCHANGED <<fsVars, unitVars>>

\* iter_content raises before the body is complete: the exception passes
\* Bar.__exit__ (done), then the except clause (cleanup, raise)
NextNetworkError ==
    /\ UNCHANGED trace
    /\ pc = "next"
    /\ nread < NChunks(resp.content_length)
    /\ \E dt \in TimeSteps : now' = now + dt
    /\ bar' = Done(Resumed(now'), now')
    /\ shows' = ResumedShows
    /\ doneCalls' = doneCalls + 1
    /\ dl' = [dl EXCEPT !.occurred = "ChunkedEncodingError", !.exit = "raised"]
    /\ files' = Cleanup(files, dl.path)
    /\ Raise("ChunkedEncodingError")
    /\ UNCHANGED <<loopVars, di, old_dir, job, out, ex, dlCount, exCount, nread,
                   resp, dirs>>
    /\ UNCHANGED unitVars

\* the loop body: f.write(chunk); f.flush()
BodyWrite ==
    /\ UNCHANGED trace
    /\ pc = "body"
    /\ pc' = "next"
    /\ UNCHANGED <<loopVars, di, cwd, old_dir, err, job, out, ex, dlCount, exCount>>
    /\ UNCHANGED <<fsVars, unitVars, dlVars>>

\* f.write or f.flush raises: the except clause (cleanup, raise).  The
\* generator is left suspended at its yield; whether and when it is finalized
\* (close() runs Bar.__exit__, hence done) is up to the interpreter's garbage
\* collection, so both outcomes are possible.
BodyWriteFails ==
    /\ UNCHANGED trace
    /\ pc = "body"
    /\ \/ /\ bar' = Done(bar, now)
          /\ doneCalls' = doneCalls + 1
       \/ /\ bar' = bar
          /\ doneCalls' = doneCalls
    /\ dl' = [dl EXCEPT !.occurred = "IOError", !.exit = "raised"]
    /\ files' = Cleanup(files, dl.path)
    /\ Raise("IOError")
    /\ UNCHANGED <<loopVars, di, old_dir, job, out, ex, dlCount, exCount, nread,
                   resp, now, shows, dirs>>
    /\ UNCHANGED unitVars

(***************************************************************************)
(* _extract_downloaded_archive(output_path), called after the download.    *)
(***************************************************************************)
\* the archive is extracted (or no branch matches) and removed.  The transfer
\* is over: its response, Bar and call record are dropped, and the clock, which
\* the program reads only as differences, is counted from 0 again.
ExtractReturns ==
    /\ UNCHANGED trace
    /\ pc = "extract"
    /\ \E corrupt \in BOOLEAN, members \in ArchiveContents(job.url) :
         LET r == ExtractDownloadedArchive(job.output_path, corrupt, members,
                                           cwd, files, dirs)
         IN  /\ r.err = "none"
             /\ files' = r.files
             /\ dirs' = r.dirs
             /\ ex' = [path |-> target, extractor |-> r.ran, exit |-> "returned",
                       err |-> r.err, members |-> members]
    /\ exCount' = exCount + 1
    /\ job' = NoJob
    /\ resp' = NoResp
    /\ nread' = 0
    /\ bar' = NoBar
    /\ now' = 0
    /\ dl' = NoDl
    /\ shows' = <<>>
    /\ doneCalls' = 0
    /\ IF job.ret = "unit"
       THEN /\ idx' = idx + 1
            /\ pc' = "unit"
            /\ UNCHANGED <<cwd, di, units>>
       ELSE /\ ReturnFromDataset
            /\ UNCHANGED unitVars
    /\ UNCHANGED <<loopVars, old_dir, err, out, dlCount>>

\* the extractor raises (a corrupt archive, or os.mkdir in _unzip_7z): the
\* archive is not removed
ExtractRaises ==
    /\ UNCHANGED trace
    /\ pc = "extract"
    /\ \E corrupt \in BOOLEAN, members \in ArchiveContents(job.url) :
         LET r == ExtractDownloadedArchive(job.output_path, corrupt, members,
                                           cwd, files, dirs)
         IN  /\ r.err # "none"
             /\ files' = r.files
             /\ dirs' = r.dirs
             /\ ex' = [path |-> target, extractor |-> r.ran, exit |-> "raised",
                       err |-> r.err, members |-> members]
             /\ Raise(r.err)
    /\ exCount' = exCount + 1
    /\ UNCHANGED <<loopVars, di, old_dir, job, out, dlCount>>
    /\ UNCHANGED <<unitVars, dlVars>>

Next ==
    \/ MainNextTopic
    \/ MainReturn
    \/ Rerun
    \/ ProcessSkip
    \/ ProcessUntagged
    \/ ProcessLidar
    \/ ProcessUnknownTag
    \/ UnitSkip
    \/ UnitDownload
    \/ UnitsEnd
    \/ GetRaises
    \/ OpenFails
    \/ MissingLength
    \/ DownloadStart
    \/ NextChunk
    \/ NextExhausted
    \/ NextNetworkError
    \/ BodyWrite
    \/ BodyWriteFails
    \/ ExtractReturns
    \/ ExtractRaises

Spec == Init /\ [][Next]_vars

(***************************************************************************)
(* A Bar on its own: constructed for MaxShows items, shown as bar() shows  *)
(* it (progress i + 1 after item i) with any time passing between the      *)
(* calls, then done.                                                       *)
(***************************************************************************)
InitBar ==
    /\ manifest = <<>>
    /\ ti = 1
    /\ di = 1
    /\ pc = "bar"
    /\ cwd = START
    /\ old_dir = START
    /\ dirs = {}
    /\ files = {}
    /\ err = "none"
    /\ job = NoJob
    /\ units = <<>>
    /\ idx = 0
    /\ resp = NoResp
    /\ nread = 0
    /\ now = 0
    /\ bar = BarNew(MaxShows * CHUNK_SIZE, 0)
    /\ shows = InitShows(MaxShows * CHUNK_SIZE)
    /\ out = NoOut
    /\ dl = NoDl
    /\ ex = NoEx
    /\ dlCount = 0
    /\ exCount = 0
    /\ doneCalls = 0
    /\ trace = <<>>
    /\ run = 1
    /\ prev = {}

notBarVars == <<manifest, ti, di, pc, cwd, old_dir, dirs, files, err, job, units,
                idx, resp, nread, out, dl, ex, dlCount, exCount, trace, run, prev>>

\* bar.show(i + 1)
BarShow ==
    /\ pc = "bar"
    /\ doneCalls = 0
    /\ bar.last_progress < MaxShows
    /\ \E dt \in TimeSteps : now' = now + dt
    /\ bar' = Show(bar, bar.last_progress + 1, now')
    /\ shows' = Append(shows, bar.last_progress + 1)
    /\ UNCHANGED <<notBarVars, doneCalls>>

\* Bar.__exit__: done
BarDone ==
    /\ pc = "bar"
    /\ doneCalls = 0
    /\ bar' = Done(bar, now)
    /\ doneCalls' = 1
    /\ UNCHANGED <<notBarVars, now, shows>>

NextBar == BarShow \/ BarDone

SpecBar == InitBar /\ [][NextBar]_vars

(***************************************************************************)
(* Properties.                                                             *)
(***************************************************************************)
\* every declared file of the dataset about to be processed is on disk in the
\* topic's output directory
AllDeclaredPresent ==
    \A k \in 1..Len(dataset.files) :
        Join(output_dir, dataset.files[k]) \in (files \cup dirs)

\* C1: a dataset (tagged or not) whose declared files are all present in the
\* topic directory when it is processed is finished in that step with no
\* download, no extraction, and no file created or deleted.
C1_SatisfiedDatasetIsSkipped ==
    [][(InDataset /\ AllDeclaredPresent)
         => /\ files' = files
            /\ dlCount' = dlCount
            /\ exCount' = exCount
            /\ pc' = "main"
            /\ di' = di + 1
            /\ err' = "none"]_vars

\* a tagged dataset whose archives a.7z and b.7z are both on disk was skipped
C1_Witness ==
    /\ pc = "main"
    /\ ti = 1
    /\ di = 2
    /\ manifest[1].downloads[1] = DS_lidar
    /\ out = [verb |-> "Skipping", title |-> T_Lidar]
    /\ dlCount = 0
    /\ exCount = 0

\* C2: a download that fails after the output file was opened leaves no file
\* at output_path, and raises the failure that occurred.
C2_FailedDownloadLeavesNoFile ==
    (dl.exit = "raised" /\ dl.opened)
        => /\ dl.path \notin files
           /\ err = dl.occurred
           /\ pc = "halted"

\* the stream broke after a chunk had been written to the file
C2_Witness ==
    /\ dl.exit = "raised"
    /\ dl.opened
    /\ dl.occurred = "ChunkedEncodingError"
    /\ nread >= 1
    /\ dl.path \notin files

\* C3: a download answered with a non-2xx status fails: no file is left at
\* output_path, nothing is extracted, and the run halts.
C3_Non2xxIsNetworkError ==
    (resp # NoResp /\ resp.status \notin 200..299 /\ dl.exit # "running")
        => /\ dl.exit = "raised"
           /\ dl.path \notin files
           /\ pc = "halted"
           /\ ex = NoEx

\* C4 as stated: the rate-sample window ittimes never holds more than 9 samples.
C4_WindowAtMost9 == Len(bar.ittimes) <= ETA_SMA_WINDOW

\* C4 as amended: ittimes never holds more than 10 samples: the 9 kept from
\* before (ETA_SMA_WINDOW) and the current one.
C4_WindowAtMost10 == Len(bar.ittimes) <= ETA_SMA_WINDOW + 1

\* the window is full and its oldest sample has been dropped: the first sample
\* left is that of show(2)
C4_Witness ==
    /\ Len(bar.ittimes) = ETA_SMA_WINDOW + 1
    /\ bar.ittimes[1][2] = 3

\* a sequence of numbers that never decreases
NonDecreasing(s) == \A k \in 1..(Len(s) - 1) : s[k] <= s[k + 1]

\* C5: when a download completes without error, the progress values shown are
\* non-decreasing and the last one equals expected_total (expected_size, kept
\* here in units of 1/1024).
C5_FinalShowReachesExpected ==
    (dl.exit = "returned")
        => /\ NonDecreasing(shows)
           /\ shows # <<>>
           /\ shows[Len(shows)] * CHUNK_SIZE = bar.expected_size

\* C6: once a download's Bar exists, last_progress never exceeds expected_size
\* (kept in units of 1/1024), whatever the content-length and the number of
\* chunks received.
C6_CompletedWithinExpected ==
    (bar # NoBar) => (bar.last_progress * CHUNK_SIZE <= bar.expected_size)

\* every chunk of a body of 1025 bytes has been received and shown
C6_Witness ==
    /\ pc = "extract"
    /\ resp.content_length = CHUNK_SIZE + 1
    /\ bar.last_progress = 2
    /\ shows = <<0, 1, 2>>

\* C7 as stated: the lidar descriptor with url http://x/index.html and files
\* a.7z, b.7z expands into two units with the URLs http://x/a.7z and
\* http://x/b.7z.
C7_UrlsReplaceLastSegment ==
    (pc = "unit" /\ dataset = DS_lidar)
        => /\ Len(units) = 2
           /\ units[1].url = URL_x_a
           /\ units[2].url = URL_x_b

\* C7 as amended: the expansion yields one unit per file, in file order; unit
\* i's URL is the url with ".html" replaced by "/" and the file name, so
\* http://x/index.html yields http://x/index/a.7z and http://x/index/b.7z; the
\* titles of the units are suffixed "1 of 2" and "2 of 2".
C7_LidarExpansion ==
    /\ (pc = "unit" /\ dataset = DS_lidar)
         => /\ Len(units) = Len(dataset.files)
            /\ units[1].url = URL_index_a
            /\ units[2].url = URL_index_b
            /\ units[1].output_path = Join(Join(HERE, S_data), F_a_7z)
            /\ units[2].output_path = Join(Join(HERE, S_data), F_b_7z)
            /\ units[1].decompressed = F_a_gnd
            /\ units[2].decompressed = F_b_gnd
    /\ (job.ret = "unit" /\ job.url = URL_index_a) => job.title = TITLE_1_of_2
    /\ (job.ret = "unit" /\ job.url = URL_index_b) => job.title = TITLE_2_of_2
    /\ (job.ret = "unit") => job.url \in {URL_index_a, URL_index_b}

\* the second unit of the lidar dataset is about to be downloaded
C7_Witness ==
    /\ pc = "get"
    /\ job.ret = "unit"
    /\ idx = 1
    /\ job.url = URL_index_b
    /\ job.title = TITLE_2_of_2

\* some declared file of the dataset about to be processed is missing
SomeDeclaredMissing ==
    \E k \in 1..Len(dataset.files) :
        Join(output_dir, dataset.files[k]) \notin (files \cup dirs)

\* C8: a dataset with a non-empty tag other than "lidar" and a declared file
\* missing fails with NotImplementedError in the step that processes it: no
\* download, no extraction, no file created or deleted.
C8_UnknownTagFailsFast ==
    [][(InDataset /\ dataset.tag # <<>> /\ dataset.tag # TAG_lidar
          /\ SomeDeclaredMissing)
         => /\ err' = "NotImplementedError"
            /\ pc' = "halted"
            /\ files' = files
            /\ dlCount' = dlCount
            /\ exCount' = exCount]_vars

\* the run was halted by the dataset tagged "foo", before any download
C8_Witness ==
    /\ pc = "halted"
    /\ err = "NotImplementedError"
    /\ dataset.tag = TAG_foo
    /\ dlCount = 0
    /\ exCount = 0

\* the extractors in the order of the if/elif chain, and a suffix list's first
\* match: the extractor of the first suffix that p ends with, "none" when p
\* ends with none of them
ExtractorNames == <<"r:gz", "r:", "r:bz2", "zip", "7z">>

FirstMatch(p, suffixes) ==
    LET hits == {k \in 1..Len(suffixes) : EndsWith(p, suffixes[k])}
    IN  IF hits = {} THEN "none"
        ELSE ExtractorNames[CHOOSE k \in hits : \A j \in hits : k <= j]

\* C9 as stated: the extractor is that of the first of .tar.gz, .tar,
\* .tar.bz2, .zip, .7z that the path ends with, and a path that ends with none
\* of them has no extractor run on it, is deleted, and raises no error.
C9_DottedSuffixDispatch ==
    (ex # NoEx)
        => LET e == FirstMatch(ex.path,
                        <<DOT_tar_gz, DOT_tar, DOT_tar_bz2, DOT_zip, DOT_7z>>)
           IN  /\ ex.extractor = e
               /\ (e = "none") => (ex.exit = "returned" /\ ex.path \notin files)

\* C9 as amended: the suffixes are tar.gz, tar, tar.bz2, zip, 7z, without the
\* dot (a path such as gzip takes the zip extractor); a path that ends with
\* none of them has no extractor run on it, is deleted, and raises no error.
C9_SuffixDispatch ==
    (ex # NoEx)
        => LET e == FirstMatch(ex.path,
                        <<SUF_tar_gz, SUF_tar, SUF_tar_bz2, SUF_zip, SUF_7z>>)
           IN  /\ ex.extractor = e
               /\ (e = "none") => (ex.exit = "returned" /\ ex.path \notin files)
               /\ (ex.path = Join(Join(HERE, S_terrain), Basename(URL_archive_dat)))
                     => e = "none"

\* archive.dat was deleted with no extractor run and no error
C9_Witness ==
    /\ ex.path = Join(Join(HERE, S_terrain), Basename(URL_archive_dat))
    /\ ex.extractor = "none"
    /\ ex.exit = "returned"
    /\ ex.path \notin files
    /\ err = "none"

\* C10: when _extract_downloaded_archive has returned for an archive path, no
\* file exists at that path.
C10_ArchiveRemovedOnReturn ==
    (ex.exit = "returned") => (ex.path \notin files)

\* dem.zip was extracted, leaving dem.tif, and is gone
C10_Witness ==
    /\ ex.exit = "returned"
    /\ ex.extractor = "zip"
    /\ ex.path = Join(Join(HERE, S_terrain), Basename(URL_dem_zip))
    /\ Join(Join(HERE, S_terrain), F_dem_tif) \in files
    /\ ex.path \notin files

\* C11: whenever no dataset is being processed (before the first, between two,
\* after the last, and after a failure at any step halted the run) the working
\* directory is the one the process was started in.
C11_WorkingDirectoryRestored ==
    (pc \in {"main", "done", "halted"}) => (cwd = START)

\* a download that broke mid-stream, inside the topic directory, halted the
\* run, and the working directory is back
C11_Witness ==
    /\ pc = "halted"
    /\ dl.exit = "raised"
    /\ dl.occurred = "ChunkedEncodingError"
    /\ Dirname(dl.path) # START
    /\ cwd = START

\* the positions of the datasets of manifest m in declaration order: topic
\* by topic, and dataset by dataset inside a topic
RECURSIVE PositionsFrom(_, _)
PositionsFrom(m, t) ==
    IF t > Len(m) THEN <<>>
    ELSE [d \in 1..Len(m[t].downloads) |-> <<t, d>>] \o PositionsFrom(m, t + 1)

Positions(m) == PositionsFrom(m, 1)

IsPrefix(s, t) == Len(s) <= Len(t) /\ \A k \in 1..Len(s) : s[k] = t[k]

\* C12: the datasets are processed in declaration order, and once a failure
\* has occurred the program takes no further step: no later skip decision,
\* download or extraction.
C12_InOrderAndHaltOnFailure ==
    [][err = "none" /\ IsPrefix(trace', Positions(manifest))]_vars

\* the first unit of a lidar dataset failed: its second unit and the dataset
\* declared after it were never processed
C12_Witness ==
    /\ pc = "halted"
    /\ err # "none"
    /\ manifest[1].downloads = <<DS_lidar, DS_dem>>
    /\ trace = << <<1, 1>> >>
    /\ job.ret = "unit"
    /\ idx = 0

C14_UnitsSkipIndependently ==
    [][/\ (pc = "unit" /\ idx < Len(units) /\ dataset = DS_lidar)
            => IF Join(output_dir, <<F_a_gnd, F_b_gnd>>[idx + 1]) \in (files \cup dirs)
               THEN /\ pc' = "unit"
                    /\ idx' = idx + 1
                    /\ dlCount' = dlCount
                    /\ exCount' = exCount
                    /\ files' = files
               ELSE /\ pc' = "get"
                    /\ idx' = idx
                    /\ job'.url = <<URL_index_a, URL_index_b>>[idx + 1]
       /\ (pc = "extract" /\ job.ret = "unit" /\ pc' # "halted")
            => (pc' = "unit" /\ idx' = idx + 1 /\ exCount' = exCount + 1)]_vars

\* a.gnd was there and b.gnd was not: the first unit was passed over and the
\* second is being downloaded
C14_Witness ==
    /\ pc = "get"
    /\ job.ret = "unit"
    /\ idx = 1
    /\ job.url = URL_index_b
    /\ run = 1
    /\ dlCount = 0
    /\ Join(output_dir, F_a_gnd) \in files
    /\ Join(output_dir, F_b_gnd) \notin files

\* the names of the final artifacts of a dataset: its declared files, or for a
\* lidar dataset the .gnd names of its archives
ArtifactNames(ds) ==
    {IF ds.tag = TAG_lidar THEN Replace(ds.files[k], SUF_7z, S_gnd) ELSE ds.files[k]
        : k \in 1..Len(ds.files)}

\* every final artifact of every dataset of the manifest is among the files
\* fs: an untagged dataset's in its topic directory, a lidar dataset's wherever
\* the extraction left it
Delivered(fs) ==
    \A t \in 1..Len(manifest) : \A d \in 1..Len(manifest[t].downloads) :
        \A n \in ArtifactNames(manifest[t].downloads[d]) :
            \E q \in fs :
                /\ Basename(q) = n
                /\ (manifest[t].downloads[d].tag # TAG_lidar
                        => Dirname(q) = Join(HERE, manifest[t].topic))

\* C15: a second run made right after a run that ended without error, with
\* every dataset's final artifacts on disk, makes no download, for untagged
\* and for lidar datasets alike.
C15_RerunDownloadsNothing ==
    (run = 2 /\ Delivered(prev)) => (dlCount = 0)

\* C16: every file that a step of processing a dataset of topic T creates lies
\* in the directory T under the base directory.
C16_FilesCreatedInTopicDirectory ==
    [][\A q \in files' \ files : Dirname(q) = Join(HERE, manifest[ti].topic)]_vars

\* the member name n with the extension .gnd in place of its own
GndName(n) ==
    LET dots == {k \in 1..Len(n) : n[k] = "."}
        stem == IF dots = {} THEN n
                ELSE SubSeq(n, 1, (CHOOSE k \in dots : \A j \in dots : j <= k) - 1)
    IN  stem \o <<".">> \o S_gnd

\* C17: the extraction of a readable .7z archive, given by a bare file name or
\* by an absolute path, succeeds and leaves one file per member beside the
\* archive, named as the member with the extension .gnd.
C17_SevenZipExtracts ==
    (ex.extractor = "7z" /\ ex.err # "FormatError")
        => /\ ex.exit = "returned"
           /\ \A k \in 1..Len(ex.members) :
                Join(Dirname(ex.path), GndName(Basename(ex.members[k]))) \in files

\* C18: a dataset whose files list is empty is finished in the step that
\* processes it, on every run and whatever is on disk, its url and its tag:
\* no download, no extraction, no error.
C18_NoFilesIsAlwaysSkipped ==
    [][(InDataset /\ dataset.files = <<>>)
         => /\ pc' = "main"
            /\ di' = di + 1
            /\ err' = "none"
            /\ dlCount' = dlCount
            /\ exCount' = exCount
            /\ files' = files
            /\ out' = [verb |-> "Skipping", title |-> dataset.title]]_vars

\* the dataset with no files and the unknown tag "foo" was skipped
C18_Witness ==
    /\ pc = "main"
    /\ ti = 2
    /\ di = 2
    /\ manifest[2].downloads[1] = DS_foo_nofiles
    /\ out = [verb |-> "Skipping", title |-> DS_foo_nofiles.title]
    /\ err = "none"

====
